---- MODULE Spec2Model ----
(***************************************************************************)
(* A model of the adc client (github.com/appliedres/adc): point lookups    *)
(* (GetUser, GetGroup), the concurrent membership reconciliation           *)
(* (AddGroupMembers, DeleteGroupMembers), the paginated listing            *)
(* (ListUsers, ListGroups) and the session layer, against a directory      *)
(* that is either the in-memory fixture of mock.go or a live server.       *)
(***************************************************************************)
EXTENDS Integers, Sequences, FiniteSets, TLC

\* ------------------------------------------------------------------ bounds
\* Longest batch of member identifiers handed to one reconcile call.
MaxBatch == 2
\* Number of reconcile calls a caller makes one after the other in SpecRepeat.
MaxCalls == 2
\* Longest member list the directory starts with.
MaxMembers == 2

\* Most entries a listing's search matches.
MaxEntries == 3
\* Largest page size a caller asks for.
MaxPageSize == 2

\* Number of operations run through one session.
MaxOps == 2

\* Pages of one listing that are followed; the loop itself has no bound.
MaxPages == 6

\* Values an entry holds for one attribute.
MaxVals == 2

\* ------------------------------------------------------------- the universe
\* Account identifiers a caller can name, and the one group operated on.
Ids == {"u1", "u2"}
GroupId == "g"
GroupDn == "dn_g"
\* The DN of the entry an identifier resolves to; dn_u0 is a member that no
\* identifier of Ids names.
DnOf(id) == CASE id = "u1" -> "dn_u1" [] id = "u2" -> "dn_u2" [] OTHER -> "dn_none"
OtherDn == "dn_u0"
AllDns == {OtherDn} \cup {DnOf(id) : id \in Ids}
\* The callers of the reconciler: caller 1 is the only one in Spec.
Callers == {1, 2}

Range(s) == {s[i] : i \in DOMAIN s}
NoDup(s) == \A i, j \in DOMAIN s : s[i] = s[j] => i = j
SeqsUpTo(S, n) == UNION {[1..k -> S] : k \in 0..n}

\* ------------------------------------------------------------------ errors
\* A Go error value: msg is "" for nil; id and cause carry what the code
\* formats into the message.
NoErr == [msg |-> "", id |-> "", cause |-> ""]
Err(m) == [msg |-> m, id |-> "", cause |-> ""]
Wrap(m, id, e) == [msg |-> m, id |-> id, cause |-> e.msg]
\* ldap.NewError(200, errors.New("connection error")): the network error.
NetworkError == [msg |-> "connection error", id |-> "200", cause |-> ""]

VARIABLES
  \* the directory
  dirKind,      \* "fixture" (mock.go) or "live"
  groupEntry,   \* what the search for the group's entry gives
  members,      \* what the search for the group's members gives, in directory order
  userEntry,    \* per identifier, what the search for the account's entry gives
  userGroups,   \* per identifier, the ids of the groups the groups search gives
  \* the reconciler
  call,         \* per caller, the state of its running reconcile call
  prev,         \* per caller, the outcome of its last call that returned
  callsLeft,    \* per caller, the calls it may still start
  \* the paginated listing
  srv,          \* the server's side of a listing: what it holds and how it pages
  list,         \* the state of the running ListUsers / ListGroups call
  \* the session layer
  sess,         \* the session: its state, its bind account, the operation in hand
  \* point lookups
  get,          \* the state of the running GetUser / GetGroup call
  \* records built from entries
  conv          \* the configured names, the entries, and the records built from them

dirVars == <<dirKind, groupEntry, members, userEntry, userGroups>>
reconVars == <<call, prev, callsLeft>>
listVars == <<srv, list>>
\* What each part of the client leaves alone.
notRecon == <<srv, list, sess, get, conv>>
notList == <<dirVars, reconVars, sess, get, conv>>
notSess == <<dirVars, reconVars, listVars, get, conv>>
notGet == <<reconVars, listVars, sess, conv>>
notConv == <<reconVars, listVars, sess, get>>

\* --------------------------------------------------------------- directory
\* The directories a call can meet. In the fixture the two relation searches
\* are canned independently of each other (mock.go 38-154); in a live
\* directory the groups of an account are the back-link of the group's
\* member attribute.
DirInit ==
  /\ dirKind \in {"fixture", "live"}
  /\ groupEntry \in {"found", "absent", "error", "membersError"}
  /\ members \in {s \in SeqsUpTo(AllDns, MaxMembers) : NoDup(s)}
  /\ userEntry \in [Ids -> {"found", "absent", "error", "groupsError"}]
  /\ userGroups \in [Ids -> SUBSET {GroupId}]
  /\ \A id \in Ids : userEntry[id] # "found" /\ dirKind = "fixture" => userGroups[id] = {}
  /\ dirKind = "live" =>
       \A id \in Ids :
         /\ userGroups[id] = IF DnOf(id) \in Range(members) THEN {GroupId} ELSE {}
         /\ userEntry[id] = "absent" => DnOf(id) \notin Range(members)
  /\ groupEntry \in {"absent", "error", "membersError"} =>
       /\ members = <<>>
       /\ \A id \in Ids : userGroups[id] = {}

\* ----------------------------------------------------------------- lookups
\* A search filter, as the code builds it from the configured templates:
\* <<"byId", id>>, <<"byDn", dn>> or <<"filter", text>> for a caller's own.
CustomUserFilter == "customFilterToSearchUser"
CustomGroupFilter == "customFilterToSearchGroup"
IdOfDn(dn) == IF \E id \in Ids : DnOf(id) = dn
              THEN CHOOSE id \in Ids : DnOf(id) = dn
              ELSE IF dn = OtherDn THEN "u0" ELSE ""

\* The account a user filter matches ("" for none): the fixture keys its
\* entries by exact filter string, the custom filter naming user1.
UserMatch(f) ==
  CASE f[1] = "byId" -> IF f[2] \in Ids THEN f[2] ELSE ""
    [] f[1] = "byDn" -> IF \E id \in Ids : DnOf(id) = f[2] THEN IdOfDn(f[2]) ELSE ""
    [] OTHER -> IF f[2] = CustomUserFilter THEN "u1" ELSE ""
GroupMatch(f) ==
  CASE f[1] = "byId" -> f[2] = GroupId
    [] f[1] = "byDn" -> f[2] = GroupDn
    [] OTHER -> f[2] = CustomGroupFilter

NilEntry == [err |-> NoErr, isNil |-> TRUE, id |-> "", dn |-> ""]
\* Client.searchEntry: one search; an error is returned as it is, no match is
\* (nil, nil), otherwise the entry.
searchEntry(kind, f) ==
  IF kind = "user"
  THEN LET id == UserMatch(f) IN
       IF id = "" \/ userEntry[id] = "absent" THEN NilEntry
       ELSE IF userEntry[id] = "error" THEN [NilEntry EXCEPT !.err = Err("search")]
       ELSE [err |-> NoErr, isNil |-> FALSE, id |-> id, dn |-> DnOf(id)]
  ELSE IF ~GroupMatch(f) \/ groupEntry = "absent" THEN NilEntry
       ELSE IF groupEntry = "error" THEN [NilEntry EXCEPT !.err = Err("search")]
       ELSE [err |-> NoErr, isNil |-> FALSE, id |-> GroupId, dn |-> GroupDn]

\* GetUserArgs.Validate / GetGroupArgs.Validate.
ValidateNever(args) == NoErr
Validate(args) ==
  IF args.Id = "" /\ args.Dn = "" /\ args.Filter = ""
  THEN Err("neither of ID, DN or Filter provided")
  ELSE NoErr

\* The filter of a point lookup: Filter wins over Dn, Dn wins over Id.
LookupFilter(args) ==
  IF args.Filter # "" THEN <<"filter", args.Filter>>
  ELSE IF args.Dn # "" THEN <<"byDn", args.Dn>>
  ELSE <<"byId", args.Id>>

\* Client.getUserGroups: the groups whose member attribute holds dn.
getUserGroups(dn) ==
  LET id == IdOfDn(dn) IN
  IF id \in Ids /\ userEntry[id] = "groupsError"
  THEN [err |-> Err("search"), groups |-> {}]
  ELSE [err |-> NoErr,
        groups |-> IF id \in Ids
                   THEN {[DN |-> GroupDn, Id |-> g] : g \in userGroups[id]}
                   ELSE {}]

\* Client.getGroupMembers: the accounts that are members of the group dn.
getGroupMembers(dn) ==
  IF groupEntry = "membersError"
  THEN [err |-> Err("search"), members |-> <<>>]
  ELSE [err |-> NoErr,
        members |-> [i \in DOMAIN members |-> [DN |-> members[i], Id |-> IdOfDn(members[i])]]]

NilUser == [DN |-> "", Id |-> "", Groups |-> {}]
NilGroup == [DN |-> "", Id |-> "", Members |-> <<>>]

\* Client.GetUser. The result carries the searches issued to the directory.
GetUser(args) ==
  IF Validate(args) # NoErr
  THEN [err |-> Validate(args), isNil |-> TRUE, user |-> NilUser, searches |-> <<>>]
  ELSE
    LET f == LookupFilter(args)
        e == searchEntry("user", f)
    IN IF e.err # NoErr
       THEN [err |-> e.err, isNil |-> TRUE, user |-> NilUser, searches |-> <<f>>]
       ELSE IF e.isNil
       THEN [err |-> NoErr, isNil |-> TRUE, user |-> NilUser, searches |-> <<f>>]
       ELSE IF args.Skip
       THEN [err |-> NoErr, isNil |-> FALSE,
             user |-> [DN |-> e.dn, Id |-> e.id, Groups |-> {}], searches |-> <<f>>]
       ELSE
         LET g == getUserGroups(e.dn) IN
         IF g.err # NoErr
         THEN [err |-> Wrap("can't get user groups", "", g.err), isNil |-> TRUE,
               user |-> NilUser, searches |-> <<f, <<"groupsOf", e.dn>> >>]
         ELSE [err |-> NoErr, isNil |-> FALSE,
               user |-> [DN |-> e.dn, Id |-> e.id, Groups |-> g.groups],
               searches |-> <<f, <<"groupsOf", e.dn>> >>]

\* Client.GetGroup.
GetGroup(args) ==
  IF Validate(args) # NoErr
  THEN [err |-> Validate(args), isNil |-> TRUE, group |-> NilGroup, searches |-> <<>>]
  ELSE
    LET f == LookupFilter(args)
        e == searchEntry("group", f)
    IN IF e.err # NoErr
       THEN [err |-> e.err, isNil |-> TRUE, group |-> NilGroup, searches |-> <<f>>]
       ELSE IF e.isNil
       THEN [err |-> NoErr, isNil |-> TRUE, group |-> NilGroup, searches |-> <<f>>]
       ELSE IF args.Skip
       THEN [err |-> NoErr, isNil |-> FALSE,
             group |-> [DN |-> e.dn, Id |-> e.id, Members |-> <<>>], searches |-> <<f>>]
       ELSE
         LET m == getGroupMembers(e.dn) IN
         IF m.err # NoErr
         THEN [err |-> Wrap("can't get group members", "", m.err), isNil |-> TRUE,
               group |-> NilGroup, searches |-> <<f, <<"membersOf", e.dn>> >>]
         ELSE [err |-> NoErr, isNil |-> FALSE,
               group |-> [DN |-> e.dn, Id |-> e.id, Members |-> m.members],
               searches |-> <<f, <<"membersOf", e.dn>> >>]

\* A membership test that answers yes for every account.
IsGroupMemberAlways(u, groupId) == TRUE

\* User.IsGroupMember.
IsGroupMember(u, groupId) == \E g \in u.Groups : g.Id = groupId

\* Group.MembersDn.
MembersDn(g) == [i \in DOMAIN g.Members |-> g.Members[i].DN]

\* An add that puts the new DNs in front of the existing ones.
popAddPrepend(g, toAdd) == toAdd \o MembersDn(g)

\* popAddGroupMembers: the existing member DNs followed by toAdd.
popAddGroupMembers(g, toAdd) ==
  IF Len(toAdd) = 0 THEN MembersDn(g) ELSE MembersDn(g) \o toAdd

\* A delete that drops every member.
popDelAll(g, toDel) == <<>>

\* popDelGroupMembers: the existing member DNs that are not in toDel.
popDelGroupMembers(g, toDel) ==
  SelectSeq(MembersDn(g), LAMBDA dn : dn \notin Range(toDel))

ById(id) == [Id |-> id, Dn |-> "", Filter |-> "", Skip |-> FALSE]


\* -------------------------------------------------------------- reconciler
IdleCall == [pc |-> "idle", op |-> "none", batch |-> <<>>, group |-> NilGroup,
             wpc |-> <<>>, got |-> <<>>, ch |-> <<>>, errCh |-> <<>>, delta |-> <<>>,
             n |-> 0, err |-> NoErr, writes |-> <<>>]
\* What a worker's lookup returned, kept beside the worker: whether it
\* failed, whether it found nothing, and the group ids of the account found.
NotYet == [failed |-> FALSE, isNil |-> TRUE, groupIds |-> {}]
Seen(r) == [failed |-> r.err # NoErr, isNil |-> r.isNil,
            groupIds |-> {g.Id : g \in r.user.Groups}]
NoPrev == [op |-> "none", batch |-> <<>>, n |-> 0, err |-> NoErr, nWrites |-> 0]

Batches == {b \in SeqsUpTo(Ids, MaxBatch) : Len(b) >= 1}

Finish(c, n, e) == [call[c] EXCEPT !.pc = "done", !.n = n, !.err = e]

\* A start that goes on to the fan-out whatever the group lookup returned.
BeginIgnoresGroup(c, op, batch) ==
  /\ call[c].pc = "idle"
  /\ callsLeft[c] > 0
  /\ callsLeft' = [callsLeft EXCEPT ![c] = @ - 1]
  /\ call' = [call EXCEPT ![c] =
       [IdleCall EXCEPT !.op = op, !.batch = batch, !.pc = "workers",
                        !.group = GetGroup(ById(GroupId)).group,
                        !.wpc = [i \in 1..Len(batch) |-> "run"],
                        !.got = [i \in 1..Len(batch) |-> NotYet]]]
  /\ UNCHANGED <<dirVars, prev, notRecon>>

\* AddGroupMembers / DeleteGroupMembers up to the fan-out: the group is
\* fetched by id, a failed or empty fetch returns at once, otherwise the two
\* channels are made and one worker per identifier is started.
Begin(c, op, batch) ==
  /\ call[c].pc = "idle"
  /\ callsLeft[c] > 0
  /\ callsLeft' = [callsLeft EXCEPT ![c] = @ - 1]
  /\ LET r == GetGroup(ById(GroupId))
         c0 == [IdleCall EXCEPT !.op = op, !.batch = batch]
     IN call' = [call EXCEPT ![c] =
          IF r.err # NoErr
          THEN [c0 EXCEPT !.pc = "done", !.err = Wrap("can't get group", "", r.err)]
          ELSE IF r.isNil
          THEN [c0 EXCEPT !.pc = "done", !.err = Err("group not found by ID")]
          ELSE [c0 EXCEPT !.pc = "workers", !.group = r.group,
                          !.wpc = [i \in 1..Len(batch) |-> "run"],
                          !.got = [i \in 1..Len(batch) |-> NotYet]]]
  /\ UNCHANGED <<dirVars, prev, notRecon>>

\* A list computed from the members the directory holds at the write.
NewMembersFresh(op, g, delta) ==
  IF op = "add" THEN members \o delta
  ELSE SelectSeq(members, LAMBDA dn : dn \notin Range(delta))

\* The member list a call writes.
NewMembers(op, g, delta) ==
  IF op = "add" THEN popAddGroupMembers(g, delta) ELSE popDelGroupMembers(g, delta)

\* A worker that reports an account it does not find as an error.
ResolveNilIsError(op, userId) ==
  LET r == GetUser(ById(userId)) IN
  IF r.err # NoErr \/ r.isNil
  THEN [toErr |-> <<Wrap("can't get account", userId, r.err)>>, toCh |-> <<>>]
  ELSE IF (op = "add") = IsGroupMember(r.user, GroupId)
  THEN [toErr |-> <<>>, toCh |-> <<>>]
  ELSE [toErr |-> <<>>, toCh |-> <<r.user.DN>>]

\* What a resolution worker sends for userId: an error on errCh, a DN on ch,
\* or nothing (account not found; already a member for add, not a member for
\* delete).
Resolve(op, userId) ==
  LET r == GetUser(ById(userId)) IN
  IF r.err # NoErr
  THEN [toErr |-> <<Wrap("can't get account", userId, r.err)>>, toCh |-> <<>>]
  ELSE IF r.isNil
  THEN [toErr |-> <<>>, toCh |-> <<>>]
  ELSE IF (op = "add") = IsGroupMember(r.user, GroupId)
  THEN [toErr |-> <<>>, toCh |-> <<>>]
  ELSE [toErr |-> <<>>, toCh |-> <<r.user.DN>>]

\* Channels without a buffer.
ChanCapUnbuffered(batch) == 0

\* make(chan string, len(membersIds)) and make(chan error, len(membersIds)):
\* the capacity of either channel.
ChanCap(batch) == Len(batch)

\* A send completes when the channel has room; the orchestrating call
\* receives only after the wait, so a send on a full channel blocks.
CanSend(c, s) ==
  /\ Len(call[c].ch) + Len(s.toCh) <= ChanCap(call[c].batch)
  /\ Len(call[c].errCh) + Len(s.toErr) <= ChanCap(call[c].batch)

\* A worker that writes the member attribute itself as soon as it has a DN.
WorkerWrites(c, i) ==
  /\ i \in DOMAIN call[c].wpc
  /\ call[c].wpc[i] = "run"
  /\ LET s == Resolve(call[c].op, call[c].batch[i]) IN
     call' = [call EXCEPT ![c].wpc[i] = "done",
                          ![c].got[i] = Seen(GetUser(ById(call[c].batch[i]))),
                          ![c].ch = @ \o s.toCh,
                          ![c].errCh = @ \o s.toErr,
                          ![c].writes = @ \o
                             [k \in DOMAIN s.toCh |->
                                [by |-> "worker", dn |-> call[c].group.DN,
                                 vals |-> NewMembers(call[c].op, call[c].group, s.toCh),
                                 ok |-> TRUE]]]
  /\ UNCHANGED <<dirVars, prev, callsLeft, notRecon>>

\* The goroutine of identifier batch[i]: one lookup, at most one send, Done.
Worker(c, i) ==
  /\ i \in DOMAIN call[c].wpc
  /\ call[c].wpc[i] = "run"
  /\ CanSend(c, Resolve(call[c].op, call[c].batch[i]))
  /\ LET s == Resolve(call[c].op, call[c].batch[i]) IN
     call' = [call EXCEPT ![c].wpc[i] = "done",
                          ![c].got[i] = Seen(GetUser(ById(call[c].batch[i]))),
                          ![c].ch = @ \o s.toCh,
                          ![c].errCh = @ \o s.toErr]
  /\ UNCHANGED <<dirVars, prev, callsLeft, notRecon>>

\* A wait that returns without waiting.
WaitNoBarrier(c) == TRUE

\* wg.Wait: every worker has called Done.
WaitDone(c) == \A i \in DOMAIN call[c].wpc : call[c].wpc[i] = "done"

\* wg.Wait returns and both channels are closed.
Join(c) ==
  /\ call[c].pc = "workers"
  /\ WaitDone(c)
  /\ call' = [call EXCEPT ![c].pc = "joined"]
  /\ UNCHANGED <<dirVars, prev, callsLeft, notRecon>>

\* An error loop that drops what it receives.
FirstErrorDropped(errCh) == NoErr

\* The loop over errCh: the first error received, NoErr when there is none.
FirstError(errCh) == IF Len(errCh) > 0 THEN Head(errCh) ELSE NoErr

\* A drain that takes the first DN received and leaves the rest.
CollectFirstOnly(c) ==
  /\ call[c].pc = "joined"
  /\ call' = [call EXCEPT ![c] =
       IF FirstError(call[c].errCh) # NoErr
       THEN Finish(c, 0, FirstError(call[c].errCh))
       ELSE IF Len(call[c].ch) = 0
       THEN Finish(c, 0, NoErr)
       ELSE [call[c] EXCEPT !.pc = "write", !.delta = <<Head(call[c].ch)>>]]
  /\ UNCHANGED <<dirVars, prev, callsLeft, notRecon>>

\* After the join: the first error aborts the call; otherwise ch is drained
\* into the delta, and an empty delta returns (0, nil).
Collect(c) ==
  /\ call[c].pc = "joined"
  /\ call' = [call EXCEPT ![c] =
       IF FirstError(call[c].errCh) # NoErr
       THEN Finish(c, 0, FirstError(call[c].errCh))
       ELSE IF Len(call[c].ch) = 0
       THEN Finish(c, 0, NoErr)
       ELSE [call[c] EXCEPT !.pc = "write", !.delta = call[c].ch]]
  /\ UNCHANGED <<dirVars, prev, callsLeft, notRecon>>

\* ------ the older variant of the reconciler (src/unnamed/part_000) ------
\* A worker that sends the DN it asked for even when the lookup failed.
ResolveSendsOnError(op, userId) ==
  LET r == GetUser(ById(userId)) IN
  IF r.err # NoErr
  THEN [toErr |-> <<>>, toCh |-> <<DnOf(userId)>>]
  ELSE IF r.isNil \/ (op = "add") = IsGroupMember(r.user, GroupId)
  THEN [toErr |-> <<>>, toCh |-> <<>>]
  ELSE [toErr |-> <<>>, toCh |-> <<r.user.DN>>]

\* What a worker of the variant sends for userId: a DN on ch, or nothing;
\* there is no error channel, and a lookup that fails just returns.
ResolveVariant(op, userId) ==
  LET r == GetUser(ById(userId)) IN
  IF r.err # NoErr
  THEN [toErr |-> <<>>, toCh |-> <<>>]
  ELSE IF r.isNil
  THEN [toErr |-> <<>>, toCh |-> <<>>]
  ELSE IF (op = "add") = IsGroupMember(r.user, GroupId)
  THEN [toErr |-> <<>>, toCh |-> <<>>]
  ELSE [toErr |-> <<>>, toCh |-> <<r.user.DN>>]

\* The goroutine of the variant.
WorkerVariant(c, i) ==
  /\ i \in DOMAIN call[c].wpc
  /\ call[c].wpc[i] = "run"
  /\ CanSend(c, ResolveVariant(call[c].op, call[c].batch[i]))
  /\ LET s == ResolveVariant(call[c].op, call[c].batch[i]) IN
     call' = [call EXCEPT ![c].wpc[i] = "done",
                          ![c].got[i] = Seen(GetUser(ById(call[c].batch[i]))),
                          ![c].ch = @ \o s.toCh]
  /\ UNCHANGED <<dirVars, prev, callsLeft, notRecon>>

\* The variant after the join: ch is drained into the delta, and an empty
\* delta returns (0, nil).
CollectVariant(c) ==
  /\ call[c].pc = "joined"
  /\ call' = [call EXCEPT ![c] =
       IF Len(call[c].ch) = 0
       THEN Finish(c, 0, NoErr)
       ELSE [call[c] EXCEPT !.pc = "write", !.delta = call[c].ch]]
  /\ UNCHANGED <<dirVars, prev, callsLeft, notRecon>>

\* mockClient.Modify: the errors it can return for a request on dn (the
\* entry is not found, or it is the fixture's error entry) and nil.
ModifyResults(dn) ==
  IF dn # GroupDn THEN {Err("entry not found")} ELSE {NoErr, Err("error for tests")}

\* A Modify that is acknowledged and leaves the directory as it was.
ModifyEffectNone(vals) == UNCHANGED <<members, userGroups>>

\* What a Modify that succeeded leaves in the directory: nothing changes in
\* the fixture; a live directory replaces the member attribute, and the
\* groups of every account follow it.
ModifyEffect(vals) ==
  IF dirKind = "fixture"
  THEN UNCHANGED <<members, userGroups>>
  ELSE /\ members' = vals
       /\ userGroups' = [id \in Ids |->
            IF DnOf(id) \in Range(vals) THEN {GroupId} ELSE {}]

\* Client.updateAttribute(dn, "member", vals) returning e: one Modify
\* replacing the attribute, issued by `by` on behalf of caller c.
updateAttribute(c, by, dn, vals, e) ==
  IF e = NoErr THEN ModifyEffect(vals) ELSE UNCHANGED <<members, userGroups>>

\* A write that is tried once more when it fails.
WriteRetries(c) ==
  /\ call[c].pc = "write"
  /\ \E e1, e2 \in ModifyResults(call[c].group.DN) :
       LET vals == NewMembers(call[c].op, call[c].group, call[c].delta)
           e == IF e1 = NoErr THEN e1 ELSE e2
           w(x) == [by |-> "orchestrator", dn |-> call[c].group.DN,
                    vals |-> vals, ok |-> x = NoErr]
       IN /\ updateAttribute(c, "orchestrator", call[c].group.DN, vals, e)
          /\ call' = [call EXCEPT ![c] =
               [Finish(c, IF e = NoErr THEN Len(call[c].delta) ELSE 0, e)
                 EXCEPT !.writes = IF e1 = NoErr THEN Append(@, w(e1))
                                   ELSE @ \o <<w(e1), w(e2)>>]]
  /\ UNCHANGED <<dirKind, groupEntry, userEntry, prev, callsLeft, notRecon>>

\* The write and the return: the new list replaces the member attribute; a
\* failed write returns (0, err), a successful one (len(delta), nil).
Write(c) ==
  /\ call[c].pc = "write"
  /\ \E e \in ModifyResults(call[c].group.DN) :
       LET vals == NewMembers(call[c].op, call[c].group, call[c].delta) IN
       /\ updateAttribute(c, "orchestrator", call[c].group.DN, vals, e)
       /\ call' = [call EXCEPT ![c] =
            [Finish(c, IF e = NoErr THEN Len(call[c].delta) ELSE 0, e)
              EXCEPT !.writes = Append(@, [by |-> "orchestrator", dn |-> call[c].group.DN,
                                           vals |-> vals, ok |-> e = NoErr])]]
  /\ UNCHANGED <<dirKind, groupEntry, userEntry, prev, callsLeft, notRecon>>

\* The call returns to its caller, who may call again.
Return(c) ==
  /\ call[c].pc = "done"
  /\ prev' = [prev EXCEPT ![c] = [op |-> call[c].op, batch |-> call[c].batch,
                                  n |-> call[c].n, err |-> call[c].err,
                                  nWrites |-> Len(call[c].writes)]]
  /\ call' = [call EXCEPT ![c] = IdleCall]
  /\ UNCHANGED <<dirVars, callsLeft, notRecon>>

AddGroupMembers(c) == \E b \in Batches : Begin(c, "add", b)
DeleteGroupMembers(c) == \E b \in Batches : Begin(c, "del", b)

\* ------------------------------------------------------- paginated listing
Min(a, b) == IF a < b THEN a ELSE b
\* The page sizes asked for: positive and far below 2^31, so that
\* uint32(pageSize) is pageSize.
PageSizes == 1..MaxPageSize

\* A paging cookie: 0 is the empty cookie, k > 0 stands for "k entries have
\* been returned".
EmptyCookie == 0
\* The paging control of a response, and a control of another type.
ControlPaging(cookie) == [type |-> "paging", cookie |-> cookie]
OtherControl == [type |-> "other", cookie |-> EmptyCookie]

\* mockClient.Search: every matching entry at once, no control.
MockSearch(n) == [entries |-> [i \in 1..n |-> i], ctlNil |-> TRUE, controls |-> <<>>]

\* The controls of a paging server's response, by the way the server lays
\* them out.
ResponseControls(shape, cookie) ==
  CASE shape = "pagingOnly" -> <<ControlPaging(cookie)>>
    [] shape = "otherFirst" -> <<OtherControl, ControlPaging(cookie)>>
    [] OTHER -> <<>>

\* A server that pages: the request's cookie says where to go on, the page
\* holds at most size entries, and the cookie returned is empty on the last
\* page. A lazy server finds out that a full page was the last one only on
\* the next request, which it answers with an empty page.
PagedSearch(cookie, size) ==
  LET upto == Min(srv.n, cookie + size)
      next == IF srv.lazy
              THEN (IF upto - cookie = size THEN upto ELSE EmptyCookie)
              ELSE (IF upto < srv.n THEN upto ELSE EmptyCookie)
  IN [entries |-> [i \in 1..(upto - cookie) |-> cookie + i],
      ctlNil |-> FALSE,
      controls |-> ResponseControls(srv.ctl, next)]

\* A server that never ends its listing: every page holds one more entry
\* and comes with a cookie that is not empty.
EndlessSearch(cookie) ==
  [entries |-> <<cookie + 1>>,
   ctlNil |-> FALSE,
   controls |-> ResponseControls(srv.ctl, cookie + 1)]

\* cl.ldap.Search(req) with the paging control (size, cookie) attached.
Search(cookie, size) ==
  CASE srv.kind = "all" -> MockSearch(srv.n)
    [] srv.kind = "endless" -> EndlessSearch(cookie)
    [] OTHER -> PagedSearch(cookie, size)

IdleList == [pc |-> "idle", kind |-> "none", size |-> 0, cookie |-> EmptyCookie,
             entries |-> <<>>, reqs |-> <<>>, backs |-> <<>>,
             result |-> <<>>, resultNil |-> TRUE, err |-> NoErr]

\* The cookie a response hands back, as the loop reads it: -1 when the loop
\* finds no paging control.
CookieBack(sr) ==
  IF sr.ctlNil THEN -1
  ELSE IF sr.controls[1].type # "paging" THEN -1
  ELSE sr.controls[1].cookie

\* A loop body that never moves the cookie on.
PageStepStaleCookie(l, sr) ==
  [l EXCEPT !.entries = @ \o sr.entries,
            !.reqs = Append(@, l.cookie),
            !.backs = Append(@, CookieBack(sr)),
            !.pc = IF CookieBack(sr) \in {-1, EmptyCookie} THEN "collected" ELSE "loop"]

\* A loop body that gives up after its third page.
PageStepCapped(l, sr) ==
  IF ~sr.ctlNil /\ Len(sr.controls) = 0
  THEN [l EXCEPT !.entries = @ \o sr.entries, !.reqs = Append(@, l.cookie),
                 !.pc = "panic"]
  ELSE LET l1 == [l EXCEPT !.entries = @ \o sr.entries,
                           !.reqs = Append(@, l.cookie),
                           !.backs = Append(@, CookieBack(sr))]
       IN IF CookieBack(sr) \in {-1, EmptyCookie} \/ Len(l1.reqs) >= 3
          THEN [l1 EXCEPT !.pc = "collected"]
          ELSE [l1 EXCEPT !.pc = "loop", !.cookie = CookieBack(sr)]

\* The body of the loop after a search that succeeded: the page is appended;
\* the loop ends on nil controls, on a first control that is no paging
\* control and on an empty cookie, and indexing an empty control list
\* panics; otherwise the cookie is carried to the next request.
PageStep(l, sr) ==
  LET l1 == [l EXCEPT !.entries = @ \o sr.entries,
                      !.reqs = Append(@, l.cookie)]
  IN IF sr.ctlNil
     THEN [l1 EXCEPT !.pc = "collected", !.backs = Append(@, -1)]
     ELSE IF Len(sr.controls) = 0
     THEN [l1 EXCEPT !.pc = "panic"]
     ELSE IF sr.controls[1].type # "paging"
     THEN [l1 EXCEPT !.pc = "collected", !.backs = Append(@, -1)]
     ELSE IF sr.controls[1].cookie = EmptyCookie
     THEN [l1 EXCEPT !.pc = "collected", !.backs = Append(@, EmptyCookie)]
     ELSE [l1 EXCEPT !.pc = "loop", !.backs = Append(@, sr.controls[1].cookie),
                     !.cookie = sr.controls[1].cookie]

\* ListUsers / ListGroups up to the loop: the request is built and the
\* paging control made with an empty cookie.
ListBegin(kind, pageSize) ==
  /\ list.pc = "idle"
  /\ list' = [IdleList EXCEPT !.pc = "loop", !.kind = kind, !.size = pageSize]
  /\ UNCHANGED <<srv, notList>>

ListUsers == \E ps \in PageSizes : ListBegin("users", ps)
ListGroups == \E ps \in PageSizes : ListBegin("groups", ps)

\* The errors a search of a page can return: the network error and another.
SearchErrors == {Err("search"), NetworkError}

\* A turn of the loop that, when the search fails, keeps what was collected
\* and returns it with the error.
ListPagePartial ==
  /\ list.pc = "loop"
  /\ Len(list.reqs) < MaxPages
  /\ \E e \in {NoErr} \cup SearchErrors :
       list' = IF e # NoErr
               THEN [list EXCEPT !.pc = "collected", !.err = e,
                                 !.reqs = Append(@, list.cookie)]
               ELSE PageStep(list, Search(list.cookie, list.size))
  /\ UNCHANGED <<srv, notList>>

\* One turn of the loop: the search of a page, issued on the connection
\* itself, fails, and the call returns (nil, err), or it succeeds and the
\* loop body runs.
ListPage ==
  /\ list.pc = "loop"
  /\ Len(list.reqs) < MaxPages
  /\ \E e \in {NoErr} \cup SearchErrors :
       list' = IF e # NoErr
               THEN [list EXCEPT !.pc = "done", !.err = e,
                                 !.reqs = Append(@, list.cookie)]
               ELSE PageStep(list, Search(list.cookie, list.size))
  /\ UNCHANGED <<srv, notList>>

\* After the loop: (nil, nil) when nothing was collected, otherwise one
\* record per entry, in the order collected.
ListFinish ==
  /\ list.pc = "collected"
  /\ list' = [list EXCEPT !.pc = "done",
                          !.resultNil = (Len(list.entries) = 0),
                          !.result = [i \in DOMAIN list.entries |-> [DN |-> list.entries[i]]]]
  /\ UNCHANGED <<srv, notList>>

\* ----------------------------------------------------------- session layer
\* The bind accounts of mock.go, and one with a wrong password.
validMockBind == [DN |-> "validUser", Password |-> "validPass"]
reconnectMockBind == [DN |-> "OU=userToReconnect,DC=company,DC=com", Password |-> "validPass"]
wrongPassBind == [DN |-> "validUser", Password |-> "wrongPass"]
Accounts == {validMockBind, reconnectMockBind, wrongPassBind}

\* A bind that accepts every account.
MockBindAny(username, password) == NoErr

\* mockClient.Bind.
MockBind(username, password) ==
  IF username = validMockBind.DN /\ password = validMockBind.Password
  THEN NoErr
  ELSE Err("unauthorised")

\* What a bind of the stored account can return: the fixture decides by the
\* account alone; against a live server the connection can fail as well.
BindResults(account) ==
  IF dirKind = "fixture" \/ MockBind(account.DN, account.Password) # NoErr
  THEN {MockBind(account.DN, account.Password)}
  ELSE {NoErr, Err("connection")}

Ops == {"search", "add", "modify", "modifyDN"}
Targets == {"user1", "entryForErr", "userToReconnect"}

\* The fixture's answer to an operation on a target: getEntriesByFilter
\* fails a search that matches entryForErr with a plain error and one that
\* matches userToReconnect with LDAP error 200; Modify fails on
\* entryForErr; Add and ModifyDN return nil.
MockOutcome(op, target) ==
  CASE op = "search" /\ target = "entryForErr" -> "other"
    [] op = "search" /\ target = "userToReconnect" -> "transient"
    [] op = "modify" /\ target = "entryForErr" -> "other"
    [] OTHER -> "ok"

\* What one attempt of an operation can give.
AttemptOutcomes(op, target) ==
  IF dirKind = "fixture" THEN {MockOutcome(op, target)} ELSE {"ok", "transient", "other"}

ErrOf(o) ==
  CASE o = "ok" -> NoErr
    [] o = "transient" -> [msg |-> "connection error", id |-> "200", cause |-> ""]
    [] OTHER -> Err("error for tests")

\* A classification that takes every failure for a transient one.
IsTransientAny(o) == o # "ok"

\* The classification of a failure as transient-connection.
IsTransient(o) == o = "transient"

IdleExec == [pc |-> "idle", op |-> "none", target |-> "none", tries |-> <<>>,
             rebinds |-> 0, err |-> NoErr]

\* When the session may start binding.
CanConnect == sess.state = "Unbound"

\* The client connects: the session starts binding its account.
Connect ==
  /\ CanConnect
  /\ sess' = [sess EXCEPT !.state = "Binding"]
  /\ UNCHANGED notSess

\* The directory answers the first bind.
BindReply ==
  /\ sess.state = "Binding"
  /\ \E e \in BindResults(sess.account) :
       sess' = [sess EXCEPT !.state = IF e = NoErr THEN "Bound" ELSE "Failed",
                            !.bindErr = e]
  /\ UNCHANGED notSess

\* A retry policy that rebinds and retries again after a failed retry.
AfterRetryAgain(x, o) ==
  IF o = "ok" THEN [x EXCEPT !.pc = "done", !.err = NoErr]
  ELSE IF IsTransient(o) /\ Len(x.tries) < 4
  THEN [x EXCEPT !.pc = "rebinding", !.rebinds = @ + 1]
  ELSE [x EXCEPT !.pc = "done", !.err = ErrOf(o)]

\* execute(op) after the retry gave o: success, or the second failure as it
\* is; nothing more is tried.
AfterRetry(x, o) == [x EXCEPT !.pc = "done", !.err = ErrOf(o)]

\* execute(op) after the first attempt gave o: success and any failure that
\* is not transient are returned; a transient failure starts one rebind.
AfterFirst(x, o) ==
  IF IsTransient(o)
  THEN [x EXCEPT !.pc = "rebinding", !.rebinds = @ + 1]
  ELSE [x EXCEPT !.pc = "done", !.err = ErrOf(o)]

\* execute(op): the operation is issued on the bound session.
Execute(op, target) ==
  /\ sess.state = "Bound"
  /\ sess.exec.pc = "idle"
  /\ sess.opsLeft > 0
  /\ \E o \in AttemptOutcomes(op, target) :
       LET x == AfterFirst([IdleExec EXCEPT !.op = op, !.target = target,
                                            !.tries = <<o>>], o)
       IN sess' = [sess EXCEPT !.exec = x,
                               !.opsLeft = @ - 1,
                               !.state = IF x.pc = "rebinding" THEN "Rebinding" ELSE @]
  /\ UNCHANGED notSess

\* The rebind: the session is closed and the stored account bound again.
Rebind ==
  /\ sess.state = "Rebinding"
  /\ \E e \in BindResults(sess.account) :
       sess' = IF e = NoErr
               THEN [sess EXCEPT !.state = "Bound", !.exec.pc = "retry"]
               ELSE [sess EXCEPT !.state = "Failed", !.bindErr = e,
                                 !.exec.pc = "done", !.exec.err = e]
  /\ UNCHANGED notSess

\* The same operation is issued once more.
Retry ==
  /\ sess.state = "Bound"
  /\ sess.exec.pc = "retry"
  /\ \E o \in AttemptOutcomes(sess.exec.op, sess.exec.target) :
       LET x == AfterRetry([sess.exec EXCEPT !.tries = Append(@, o)], o)
       IN sess' = [sess EXCEPT !.exec = x,
                               !.state = IF x.pc = "rebinding" THEN "Rebinding" ELSE @]
  /\ UNCHANGED notSess

\* execute(op) returns to its caller.
ExecReturn ==
  /\ sess.exec.pc = "done"
  /\ sess.state # "Failed"
  /\ sess' = [sess EXCEPT !.exec = IdleExec]
  /\ UNCHANGED notSess

\* ----------------------------------------------------------- point lookups
IdleGet == [pc |-> "idle", kind |-> "none",
            args |-> [Id |-> "", Dn |-> "", Filter |-> "", Skip |-> FALSE],
            err |-> NoErr, isNil |-> TRUE, dn |-> "", searches |-> <<>>]

UserArgs == [Id : {"", "u1"}, Dn : {"", DnOf("u2")}, Filter : {"", CustomUserFilter},
             Skip : BOOLEAN]
GroupArgs == [Id : {"", GroupId}, Dn : {"", GroupDn}, Filter : {"", CustomGroupFilter},
              Skip : BOOLEAN]

\* A caller runs GetUser(args).
GetUserCall ==
  /\ get.pc = "idle"
  /\ \E args \in UserArgs :
       LET r == GetUser(args) IN
       get' = [pc |-> "done", kind |-> "user", args |-> args, err |-> r.err,
               isNil |-> r.isNil, dn |-> r.user.DN, searches |-> r.searches]
  /\ UNCHANGED <<dirVars, notGet>>

\* A caller runs GetGroup(args).
GetGroupCall ==
  /\ get.pc = "idle"
  /\ \E args \in GroupArgs :
       LET r == GetGroup(args) IN
       get' = [pc |-> "done", kind |-> "group", args |-> args, err |-> r.err,
               isNil |-> r.isNil, dn |-> r.group.DN, searches |-> r.searches]
  /\ UNCHANGED <<dirVars, notGet>>

\* The caller has its answer.
GetReturn ==
  /\ get.pc = "done"
  /\ get' = IdleGet
  /\ UNCHANGED <<dirVars, notGet>>

\* ------------------------------------------------- records built from entries
\* The attribute names a configuration can name, and the values an entry can
\* hold for a name: a list of at most MaxVals values, none when the entry
\* does not carry the attribute.
AttrNames == {"sAMAccountName", "cn"}
AttrValues == {"a", "b"}
ValueLists == SeqsUpTo(AttrValues, MaxVals)
EntryAttrs == [AttrNames -> ValueLists]

\* ldap.Entry.GetAttributeValue: the first value of the attribute, "" when
\* the entry does not carry it.
GetAttributeValue(e, name) == IF Len(e[name]) = 0 THEN "" ELSE e[name][1]

\* The entry a search returns for a request naming the attributes req: the
\* fixture hands out its entries whole, a live directory the attributes
\* requested.
Returned(e, req) ==
  IF dirKind = "fixture" THEN e
  ELSE [n \in AttrNames |-> IF n \in req THEN e[n] ELSE <<>>]

\* The configuration: the id attribute of users and of groups, and the
\* attributes requested for groups.
Configs ==
  [usersId : AttrNames, groupsId : AttrNames, groupsAttrs : SUBSET AttrNames \ {{}}]

\* getGroupMembers: the member entries are requested with the users' id
\* attribute, and each record takes its Id from the entry.
MemberRecord(cfg, e) ==
  LET got == Returned(e, {cfg.usersId}) IN
  [Id |-> GetAttributeValue(got, cfg.groupsId), entry |-> got, asked |-> cfg.usersId]

\* The Group GetGroup builds from the entry found.
GroupRecord(cfg, e, m) ==
  LET got == Returned(e, cfg.groupsAttrs) IN
  [Id |-> GetAttributeValue(got, cfg.groupsId), entry |-> got,
   Members |-> <<MemberRecord(cfg, m)>>]

\* The Group ListGroups builds from an entry of the listing.
ListedGroupRecord(cfg, e) ==
  LET got == Returned(e, cfg.groupsAttrs) IN
  [Id |-> GetAttributeValue(got, cfg.usersId), entry |-> got, Members |-> <<>>]

NoAttrs == [n \in AttrNames |-> <<>>]
IdleConv == [pc |-> "idle", by |-> "none",
             cfg |-> [usersId |-> "sAMAccountName", groupsId |-> "sAMAccountName",
                      groupsAttrs |-> {"sAMAccountName"}],
             group |-> NoAttrs, member |-> NoAttrs, out |-> <<>>]

\* GetGroup of the group entry, which has one member.
GetGroupRecord ==
  /\ conv.pc = "idle"
  /\ conv' = [conv EXCEPT !.pc = "done", !.by = "GetGroup",
                          !.out = <<GroupRecord(conv.cfg, conv.group, conv.member)>>]
  /\ UNCHANGED <<dirVars, notConv>>

\* ListGroups of a directory holding the group entry.
ListGroupsRecords ==
  /\ conv.pc = "idle"
  /\ conv' = [conv EXCEPT !.pc = "done", !.by = "ListGroups",
                          !.out = <<ListedGroupRecord(conv.cfg, conv.group)>>]
  /\ UNCHANGED <<dirVars, notConv>>

\* The caller has its records.
ConvReturn ==
  /\ conv.pc = "done"
  /\ conv' = [conv EXCEPT !.pc = "idle", !.by = "none", !.out = <<>>]
  /\ UNCHANGED <<dirVars, notConv>>

vars == <<dirVars, reconVars, listVars, sess, get, conv>>

ReconInit(k) ==
  /\ call = [c \in Callers |-> IdleCall]
  /\ prev = [c \in Callers |-> NoPrev]
  /\ callsLeft = [c \in Callers |-> IF c = 1 THEN k ELSE 0]

\* One directory, for the parts of the client that do not read it.
DirFixed ==
  /\ dirKind = "fixture"
  /\ groupEntry = "found"
  /\ members = <<>>
  /\ userEntry = [id \in Ids |-> "found"]
  /\ userGroups = [id \in Ids |-> {}]

NoServer == [kind |-> "all", n |-> 0, lazy |-> FALSE, ctl |-> "pagingOnly"]
NoSession == [state |-> "Unbound", account |-> validMockBind, bindErr |-> NoErr,
              exec |-> IdleExec, opsLeft |-> 0]

\* One caller making one reconcile call against any directory.
Init ==
  /\ DirInit
  /\ ReconInit(1)
  /\ srv = NoServer /\ list = IdleList /\ sess = NoSession /\ get = IdleGet /\ conv = IdleConv

Next ==
  \/ AddGroupMembers(1)
  \/ DeleteGroupMembers(1)
  \/ \E i \in 1..(MaxBatch + 1) : Worker(1, i)
  \/ Join(1)
  \/ Collect(1)
  \/ Write(1)
  \/ Return(1)

Spec == Init /\ [][Next]_vars

\* One reconcile call on a group that is found and has no members yet, the
\* accounts being whatever the directory makes of them; the scheduler runs
\* every goroutine that can run, and every lookup returns.
InitJoin ==
  /\ DirInit
  /\ dirKind = "fixture" /\ groupEntry = "found" /\ members = <<>>
  /\ ReconInit(1)
  /\ srv = NoServer /\ list = IdleList /\ sess = NoSession /\ get = IdleGet /\ conv = IdleConv

SpecJoin == InitJoin /\ [][Next]_vars /\ WF_vars(Next)

\* One reconcile call of the older variant.
NextVariant ==
  \/ AddGroupMembers(1)
  \/ DeleteGroupMembers(1)
  \/ \E i \in 1..(MaxBatch + 1) : WorkerVariant(1, i)
  \/ Join(1)
  \/ CollectVariant(1)
  \/ Write(1)
  \/ Return(1)

SpecVariant == Init /\ [][NextVariant]_vars

\* Two callers, each making one reconcile call on the same group of a live
\* directory that holds every account, their goroutines interleaved in any
\* way.
InitTwo ==
  /\ DirInit
  /\ dirKind = "live" /\ groupEntry = "found"
  /\ userEntry = [id \in Ids |-> "found"]
  /\ OtherDn \notin Range(members)
  /\ call = [c \in Callers |-> IdleCall]
  /\ prev = [c \in Callers |-> NoPrev]
  /\ callsLeft = [c \in Callers |-> 1]
  /\ srv = NoServer /\ list = IdleList /\ sess = NoSession /\ get = IdleGet /\ conv = IdleConv

NextTwo ==
  \E c \in Callers :
    \/ AddGroupMembers(c)
    \/ DeleteGroupMembers(c)
    \/ \E i \in 1..(MaxBatch + 1) : Worker(c, i)
    \/ Join(c)
    \/ Collect(c)
    \/ Write(c)
    \/ Return(c)

SpecTwo == InitTwo /\ [][NextTwo]_vars

\* One caller making MaxCalls reconcile calls one after the other.
InitRepeat ==
  /\ DirInit
  /\ ReconInit(MaxCalls)
  /\ srv = NoServer /\ list = IdleList /\ sess = NoSession /\ get = IdleGet /\ conv = IdleConv

SpecRepeat == InitRepeat /\ [][Next]_vars

\* One listing against a server that holds up to MaxEntries entries: the
\* fixture, which returns them at once, or a server that pages and answers
\* with its paging control alone.
InitPaging ==
  /\ DirFixed
  /\ ReconInit(0)
  /\ srv \in [kind : {"all", "paging"}, n : 0..MaxEntries, lazy : BOOLEAN,
              ctl : {"pagingOnly"}]
  /\ srv.kind = "all" => ~srv.lazy
  /\ list = IdleList /\ sess = NoSession /\ get = IdleGet /\ conv = IdleConv

NextPaging ==
  \/ ListUsers
  \/ ListGroups
  \/ ListPage
  \/ ListFinish

SpecPaging == InitPaging /\ [][NextPaging]_vars

\* One listing against any server: the fixture, a server that pages, or
\* one that never ends, answering with its paging control alone, after a
\* control of another type, or with a control list that is empty. Every
\* search returns, and the loop goes on whenever it can.
InitListing ==
  /\ DirFixed
  /\ ReconInit(0)
  /\ srv \in [kind : {"all", "paging", "endless"}, n : 0..MaxEntries, lazy : BOOLEAN,
              ctl : {"pagingOnly", "otherFirst", "none"}]
  /\ srv.kind = "all" => ~srv.lazy /\ srv.ctl = "pagingOnly"
  /\ srv.kind = "endless" => ~srv.lazy /\ srv.n = 0
  /\ list = IdleList /\ sess = NoSession /\ get = IdleGet /\ conv = IdleConv

SpecListing == InitListing /\ [][NextPaging]_vars /\ WF_vars(NextPaging)

\* One session, bound with any of the accounts, running up to MaxOps
\* operations.
InitSession ==
  /\ dirKind \in {"fixture", "live"}
  /\ groupEntry = "found"
  /\ members = <<>>
  /\ userEntry = [id \in Ids |-> "found"]
  /\ userGroups = [id \in Ids |-> {}]
  /\ ReconInit(0)
  /\ srv = NoServer /\ list = IdleList /\ get = IdleGet /\ conv = IdleConv
  /\ sess \in [state : {"Unbound"}, account : Accounts, bindErr : {NoErr},
               exec : {IdleExec}, opsLeft : {MaxOps}]

NextSession ==
  \/ Connect
  \/ BindReply
  \/ \E op \in Ops, t \in Targets : Execute(op, t)
  \/ Rebind
  \/ Retry
  \/ ExecReturn

SpecSession == InitSession /\ [][NextSession]_vars

\* Point lookups against any directory.
InitGet ==
  /\ DirInit
  /\ ReconInit(0)
  /\ srv = NoServer /\ list = IdleList /\ sess = NoSession /\ get = IdleGet /\ conv = IdleConv

NextGet ==
  \/ GetUserCall
  \/ GetGroupCall
  \/ GetReturn

SpecGet == InitGet /\ [][NextGet]_vars

\* Records built from a group entry and its member entry, for every
\* configuration of the id attributes and either kind of directory.
InitRecords ==
  /\ dirKind \in {"fixture", "live"}
  /\ groupEntry = "found"
  /\ members = <<>>
  /\ userEntry = [id \in Ids |-> "found"]
  /\ userGroups = [id \in Ids |-> {}]
  /\ ReconInit(0)
  /\ srv = NoServer /\ list = IdleList /\ sess = NoSession /\ get = IdleGet
  /\ \E cfg \in Configs : \E g, m \in EntryAttrs :
       conv = [IdleConv EXCEPT !.cfg = cfg, !.group = g, !.member = m]

NextRecords ==
  \/ GetGroupRecord
  \/ ListGroupsRecords
  \/ ConvReturn

SpecRecords == InitRecords /\ [][NextRecords]_vars

\* ------------------------------------------------------------------ claims
Fetched(c) == call[c].wpc # <<>>
AllWorkersDone(c) == \A i \in DOMAIN call[c].wpc : call[c].wpc[i] = "done"

\* C1: when the lookup of at least one identifier of the batch fails, the
\* call issues no write at any point and returns count 0 with the
\* "can't get account" error of an identifier whose lookup failed.
C1_FailFast ==
  \A c \in Callers :
    (Fetched(c) /\ \E i \in DOMAIN call[c].batch : userEntry[call[c].batch[i]] \in {"error", "groupsError"}) =>
      /\ call[c].writes = <<>>
      /\ call[c].pc # "write"
      /\ call[c].pc = "done" =>
           /\ call[c].n = 0
           /\ call[c].err.msg = "can't get account"
           /\ \E i \in DOMAIN call[c].batch :
                /\ call[c].batch[i] = call[c].err.id
                /\ userEntry[call[c].batch[i]] \in {"error", "groupsError"}

\* A call that returned after one lookup failed and another one had put its
\* DN on the channel.
C1_Witness ==
  \E c \in Callers :
    /\ call[c].pc = "done"
    /\ Len(call[c].errCh) = 1
    /\ Len(call[c].ch) = 1
    /\ call[c].err # NoErr

\* C3: DeleteGroupMembers on identifiers none of which is a member (each
\* resolves to nothing, or to an account whose groups do not hold the group
\* id) returns (0, nil), issues no write and leaves the member list as it
\* was fetched.
C3_DeleteNonMember ==
  \A c \in Callers :
    ( /\ call[c].op = "del"
      /\ Fetched(c)
      /\ call[c].pc = "done"
      /\ \A i \in DOMAIN call[c].batch :
           /\ ~call[c].got[i].failed
           /\ call[c].got[i].isNil \/ GroupId \notin call[c].got[i].groupIds ) =>
      /\ call[c].writes = <<>>
      /\ members = MembersDn(call[c].group)
      /\ call[c].n = 0
      /\ call[c].err = NoErr

\* A delete that returned for an identifier that resolves to an account that
\* is not a member.
C3_Witness ==
  \E c \in Callers :
    /\ call[c].pc = "done"
    /\ call[c].op = "del"
    /\ Len(call[c].batch) = 1
    /\ Len(call[c].got) = 1
    /\ ~call[c].got[1].failed
    /\ ~call[c].got[1].isNil
    /\ call[c].got[1].groupIds = {}
    /\ members # <<>>

\* C4: a call issues at most one write, every write is issued by the
\* orchestrating call, and a call that returns has written exactly once if
\* its delta is not empty and not at all otherwise.
C4_MutationDiscipline ==
  \A c \in Callers :
    /\ Len(call[c].writes) <= 1
    /\ \A k \in DOMAIN call[c].writes : call[c].writes[k].by = "orchestrator"
    /\ call[c].pc = "done" =>
         Len(call[c].writes) = (IF call[c].delta # <<>> THEN 1 ELSE 0)
    /\ call[c].pc # "done" => call[c].writes = <<>>

\* A call that returned after two workers each put a DN on the channel and
\* one write was issued.
C4_Witness ==
  \E c \in Callers :
    /\ call[c].pc = "done"
    /\ Len(call[c].delta) = 2
    /\ Len(call[c].writes) = 1

\* C5: once the orchestrating call is past the wait, every worker of the
\* batch has completed: the channels are drained, the delta is computed
\* (from all that was sent) and the write is issued only then.
C5_JoinBarrier ==
  \A c \in Callers :
    /\ call[c].pc \in {"joined", "write", "done"} => AllWorkersDone(c)
    /\ call[c].writes # <<>> => AllWorkersDone(c)
    /\ call[c].pc = "write" => call[c].delta = call[c].ch
    /\ call[c].pc = "done" /\ call[c].delta # <<>> => call[c].delta = call[c].ch

\* A call past the wait whose batch has two workers, one of which sent a DN
\* and the other nothing.
C5_Witness ==
  \E c \in Callers :
    /\ call[c].pc = "write"
    /\ Len(call[c].wpc) = 2
    /\ Len(call[c].ch) = 1

\* C2: a second AddGroupMembers with the identifier set of a first one that
\* added every identifier of the set returns (0, nil) and issues no write.
C2_AddTwice ==
  \A c \in Callers :
    ( /\ call[c].pc = "done"
      /\ call[c].op = "add"
      /\ prev[c].op = "add"
      /\ Range(prev[c].batch) = Range(call[c].batch)
      /\ NoDup(prev[c].batch)
      /\ prev[c].err = NoErr
      /\ prev[c].n = Len(prev[c].batch) ) =>
      /\ call[c].n = 0
      /\ call[c].err = NoErr
      /\ call[c].writes = <<>>

\* The same against a live directory only, where the first write is applied.
C2_AddTwiceLive == dirKind = "live" => C2_AddTwice

\* A second add of the same accounts to a live directory has returned.
C2_Witness ==
  /\ dirKind = "live"
  /\ \E c \in Callers :
       /\ call[c].pc = "done" /\ call[c].op = "add"
       /\ prev[c].op = "add" /\ prev[c].batch = call[c].batch
       /\ prev[c].n = Len(prev[c].batch) /\ prev[c].n >= 1
       /\ call[c].n = 0

\* The member list the call fetched at its start.
Fetch(c) == MembersDn(call[c].group)

\* C11: a call whose computed member list has the same membership as the
\* list it fetched issues no write and returns count 0: no write carries a
\* list with the membership of the fetched one, and a call that returns a
\* count above 0 has changed the membership.
C11_NoOpSkip ==
  \A c \in Callers :
    /\ \A k \in DOMAIN call[c].writes :
         Range(call[c].writes[k].vals) # Range(Fetch(c))
    /\ (call[c].pc = "done" /\ call[c].n > 0) =>
         /\ call[c].writes # <<>>
         /\ Range(call[c].writes[1].vals) # Range(Fetch(c))

\* C12: a call that succeeds returns the number of members it added or
\* removed: the length of the written list minus the length of the fetched
\* one for add, the reverse for delete, and 0 when nothing was written.
C12_CountIsDelta ==
  \A c \in Callers :
    (call[c].pc = "done" /\ call[c].err = NoErr /\ Fetched(c)) =>
      IF call[c].writes = <<>>
      THEN call[c].n = 0
      ELSE call[c].n = IF call[c].op = "add"
                       THEN Len(call[c].writes[1].vals) - Len(Fetch(c))
                       ELSE Len(Fetch(c)) - Len(call[c].writes[1].vals)

\* C13: the member list AddGroupMembers writes for a group whose fetched
\* list has no duplicates holds no DN twice.
C13_NoDupWritten ==
  \A c \in Callers :
    (call[c].op = "add" /\ NoDup(Fetch(c))) =>
      \A k \in DOMAIN call[c].writes : NoDup(call[c].writes[k].vals)

\* C14: when the group lookup at the start of a call returns an error or no
\* entry, the call returns (0, error) at once: no worker is started, nothing
\* is sent on the channels and no write is issued.
C14_GroupNotFound ==
  \A c \in Callers :
    (call[c].op # "none" /\ groupEntry # "found") =>
      /\ call[c].pc = "done"
      /\ call[c].n = 0
      /\ call[c].err # NoErr
      /\ call[c].wpc = <<>>
      /\ call[c].ch = <<>> /\ call[c].errCh = <<>>
      /\ call[c].writes = <<>>

\* An add to a group the directory does not hold has returned.
C14_Witness ==
  \E c \in Callers :
    /\ call[c].pc = "done" /\ call[c].op = "add"
    /\ groupEntry = "absent"
    /\ call[c].err = Err("group not found by ID")

\* Whether identifier i of the batch is one the call acts on: its lookup
\* found an account that is not yet a member (add) or is one (delete).
Qualifies(c, i) ==
  /\ ~call[c].got[i].failed
  /\ ~call[c].got[i].isNil
  /\ (call[c].op = "add") # (GroupId \in call[c].got[i].groupIds)
Count(s, x) == Cardinality({i \in DOMAIN s : s[i] = x})
\* The DNs of the identifiers the call acts on are, counted, those of s.
SameAsQualifying(c, s) ==
  \A dn \in AllDns :
    Count(s, dn) = Cardinality({i \in DOMAIN call[c].batch :
                                  Qualifies(c, i) /\ DnOf(call[c].batch[i]) = dn})

\* C15: the list AddGroupMembers writes starts with the fetched member DNs
\* in their order, and what follows is a permutation of the DNs resolved
\* for the identifiers to add.
C15_AddOrder ==
  \A c \in Callers :
    call[c].op = "add" =>
      \A k \in DOMAIN call[c].writes :
        LET v == call[c].writes[k].vals
            M == Fetch(c)
        IN /\ Len(v) >= Len(M)
           /\ SubSeq(v, 1, Len(M)) = M
           /\ SameAsQualifying(c, SubSeq(v, Len(M) + 1, Len(v)))

\* An add of two accounts to a group that had a member has written.
C15_Witness ==
  \E c \in Callers :
    /\ call[c].op = "add" /\ Len(call[c].writes) = 1
    /\ Len(Fetch(c)) >= 1
    /\ Len(call[c].writes[1].vals) = Len(Fetch(c)) + 2

\* C16: the list DeleteGroupMembers writes is the fetched member list
\* without the DNs resolved for removal: it holds exactly the fetched DNs
\* that are not to be removed, each once, in the order fetched.
C16_DeleteKeepsRest ==
  \A c \in Callers :
    call[c].op = "del" =>
      \A k \in DOMAIN call[c].writes :
        LET v == call[c].writes[k].vals
            M == Fetch(c)
            R == {DnOf(call[c].batch[i]) : i \in {j \in DOMAIN call[c].batch : Qualifies(c, j)}}
            Pos(x) == CHOOSE p \in DOMAIN M : M[p] = x
        IN /\ Range(v) = Range(M) \ R
           /\ NoDup(v)
           /\ \A i, j \in DOMAIN v : i < j => Pos(v[i]) < Pos(v[j])

\* A delete has removed one of two members.
C16_Witness ==
  \E c \in Callers :
    /\ call[c].op = "del" /\ Len(call[c].writes) = 1
    /\ Len(Fetch(c)) = 2
    /\ Len(call[c].writes[1].vals) = 1
    /\ dirKind = "live"

\* C17: in a call none of whose lookups failed, the identifiers that resolve
\* to nothing, are members already (add) or are no members (delete) raise
\* no error and leave the others alone: the delta is made of the DNs of the
\* other identifiers, and a call whose write succeeds, or that has nothing
\* to write, returns their number and no error.
C17_SkipPolicy ==
  \A c \in Callers :
    (call[c].pc = "done" /\ Fetched(c)
       /\ \A i \in DOMAIN call[c].got : ~call[c].got[i].failed) =>
      LET q == {i \in DOMAIN call[c].batch : Qualifies(c, i)} IN
      /\ q = {} => call[c].n = 0 /\ call[c].err = NoErr /\ call[c].writes = <<>>
      /\ q # {} =>
           /\ Len(call[c].writes) = 1
           /\ SameAsQualifying(c, call[c].delta)
           /\ call[c].writes[1].ok => call[c].n = Cardinality(q) /\ call[c].err = NoErr

\* An add of one account that is not found and one that is has returned 1.
C17_Witness ==
  \E c \in Callers :
    /\ call[c].pc = "done" /\ call[c].op = "add"
    /\ Len(call[c].got) = 2
    /\ ~call[c].got[1].failed /\ call[c].got[1].isNil
    /\ ~call[c].got[2].failed /\ ~call[c].got[2].isNil
    /\ call[c].n = 1 /\ call[c].err = NoErr

\* C18: a worker sends at most one message in all, neither channel ever
\* holds as many messages as its capacity while a worker is still to send,
\* so no worker blocks; and every call that has started its workers
\* returns.
C18_ProducersNeverBlock ==
  /\ [](\A c \in Callers :
         /\ Len(call[c].ch) + Len(call[c].errCh)
              <= Cardinality({i \in DOMAIN call[c].wpc : call[c].wpc[i] = "done"})
         /\ \A i \in DOMAIN call[c].wpc :
              call[c].wpc[i] = "run" =>
                /\ Len(call[c].ch) < ChanCap(call[c].batch)
                /\ Len(call[c].errCh) < ChanCap(call[c].batch))
  /\ \A c \in Callers : (call[c].pc = "workers") ~> (call[c].pc = "done")

\* Every worker of a full batch has sent its DN and the call has returned.
C18_Witness ==
  \E c \in Callers :
    /\ call[c].pc = "done"
    /\ Len(call[c].batch) = MaxBatch
    /\ Len(call[c].ch) = ChanCap(call[c].batch)

\* C22: a call whose write of the member attribute failed has returned the
\* error of that write as it is, with count 0, and has written once only.
C22_WriteFailure ==
  \A c \in Callers :
    \A k \in DOMAIN call[c].writes :
      ~call[c].writes[k].ok =>
        /\ call[c].pc = "done"
        /\ call[c].n = 0
        /\ call[c].err # NoErr
        /\ call[c].err \in ModifyResults(call[c].writes[k].dn)
        /\ Len(call[c].writes) = 1

\* An add whose write the directory refused has returned.
C22_Witness ==
  \E c \in Callers :
    /\ call[c].pc = "done" /\ call[c].op = "add"
    /\ Len(call[c].writes) = 1 /\ ~call[c].writes[1].ok
    /\ call[c].err = Err("error for tests")
    /\ call[c].n = 0

\* C23: in the older variant a lookup that fails is dropped without a
\* trace: the call never returns a lookup's error, its delta is made of the
\* DNs of the identifiers whose lookup succeeded and that are to be acted
\* on, it writes them when there are any, and when the write succeeds, or
\* there is nothing to write, it returns their number and no error.
C23_VariantDropsErrors ==
  \A c \in Callers :
    (call[c].pc = "done" /\ Fetched(c)) =>
      LET q == {i \in DOMAIN call[c].batch : Qualifies(c, i)} IN
      /\ call[c].err.msg # "can't get account"
      /\ call[c].errCh = <<>>
      /\ q = {} => call[c].n = 0 /\ call[c].err = NoErr /\ call[c].writes = <<>>
      /\ q # {} =>
           /\ Len(call[c].writes) = 1
           /\ SameAsQualifying(c, call[c].delta)
           /\ call[c].writes[1].ok => call[c].n = Cardinality(q) /\ call[c].err = NoErr

\* One lookup of a batch of two failed, the other account was added, and
\* the call returned 1 and no error.
C23_Witness ==
  \E c \in Callers :
    /\ call[c].pc = "done" /\ call[c].op = "add"
    /\ Len(call[c].got) = 2
    /\ call[c].got[1].failed
    /\ ~call[c].got[2].failed /\ ~call[c].got[2].isNil
    /\ Len(call[c].writes) = 1
    /\ call[c].n = 1 /\ call[c].err = NoErr

\* Whether the directory fails the lookup of id, and whether it holds an
\* account for id that the operation acts on.
LookupFails(id) == userEntry[id] \in {"error", "groupsError"}
ActsOn(op, id) ==
  /\ userEntry[id] = "found"
  /\ (op = "add") # (GroupId \in userGroups[id])

\* C24: the outcome of a call is fixed by the directory and the batch,
\* whatever the order in which the workers ran. After the join the channels
\* hold, in some order, one error per identifier whose lookup the directory
\* fails and one DN per identifier it acts on. The call returns an error of
\* a lookup exactly when some lookup fails, with count 0 and no write;
\* otherwise it writes exactly when some DN was sent, the DNs written are
\* the fetched ones with the sent ones added or removed, and the count is
\* the number of DNs sent, or 0 when the write fails.
C24_InterleavingIndependence ==
  \A c \in Callers :
    /\ call[c].pc \in {"joined", "write"} =>
         /\ \A id \in Ids :
              Cardinality({k \in DOMAIN call[c].errCh : call[c].errCh[k].id = id})
                = Cardinality({i \in DOMAIN call[c].batch :
                                 call[c].batch[i] = id /\ LookupFails(id)})
         /\ \A dn \in AllDns :
              Count(call[c].ch, dn)
                = Cardinality({i \in DOMAIN call[c].batch :
                                 /\ ActsOn(call[c].op, call[c].batch[i])
                                 /\ DnOf(call[c].batch[i]) = dn})
    /\ (call[c].pc = "done" /\ Fetched(c)) =>
         IF \E i \in DOMAIN call[c].batch : LookupFails(call[c].batch[i])
         THEN /\ call[c].n = 0
              /\ call[c].writes = <<>>
              /\ \E k \in DOMAIN call[c].errCh : call[c].err = call[c].errCh[k]
         ELSE /\ call[c].errCh = <<>>
              /\ call[c].writes # <<>> <=> call[c].ch # <<>>
              /\ \A k \in DOMAIN call[c].writes :
                   Range(call[c].writes[k].vals)
                     = IF call[c].op = "add"
                       THEN Range(Fetch(c)) \cup Range(call[c].ch)
                       ELSE Range(Fetch(c)) \ Range(call[c].ch)
              /\ call[c].n = IF call[c].writes # <<>> /\ call[c].writes[1].ok
                             THEN Len(call[c].ch) ELSE 0

\* Two accounts were added, the worker of the second having sent first.
C24_Witness ==
  \E c \in Callers :
    /\ call[c].pc = "done" /\ call[c].op = "add"
    /\ call[c].batch = <<"u1", "u2">>
    /\ call[c].ch = <<DnOf("u2"), DnOf("u1")>>
    /\ Len(call[c].writes) = 1
    /\ call[c].n = 2

\* C25: a call is a read-modify-write on a snapshot. The group it holds is
\* the member list the directory had when the call started; every list it
\* writes is that list with the call's own DNs appended or removed, whatever
\* the directory holds by then; and a write that succeeds leaves exactly the
\* written list in the directory.
C25_SnapshotWrite ==
  /\ [](\A c \in Callers : \A k \in DOMAIN call[c].writes :
          call[c].writes[k].vals
            = IF call[c].op = "add"
              THEN Fetch(c) \o call[c].delta
              ELSE SelectSeq(Fetch(c), LAMBDA dn : dn \notin Range(call[c].delta)))
  /\ [][\A c \in Callers :
          /\ (call[c].pc = "idle" /\ call'[c].pc = "workers") =>
               MembersDn(call'[c].group) = members
          /\ (call[c].pc = "workers" /\ call'[c].pc # "idle") =>
               call'[c].group = call[c].group
          /\ (call[c].pc = "write" /\ call'[c].pc = "done"
                /\ call'[c].err = NoErr /\ dirKind = "live") =>
               members' = call'[c].writes[Len(call'[c].writes)].vals]_vars

\* Two overlapping adds of disjoint identifiers have both returned a count
\* above 0 and no error, and the directory lacks a DN one of them wrote.
C25_Witness ==
  /\ \A c \in Callers :
       /\ call[c].pc = "done" /\ call[c].op = "add"
       /\ call[c].n > 0 /\ call[c].err = NoErr
  /\ Range(call[1].batch) \cap Range(call[2].batch) = {}
  /\ \E c \in Callers : \E k \in DOMAIN call[c].delta :
       call[c].delta[k] \notin Range(members)

\* C6: against a server that splits its N entries into pages with cookies,
\* a listing collects the entries in the server's order without repeating
\* or skipping one; the first request carries the empty cookie and every
\* later request the cookie the server returned last; the loop goes on
\* while the returned cookie is not empty and ends after the page whose
\* returned cookie is empty; the listing that ends without an error returns
\* exactly the N entries, once each.
C6_PagedListing ==
  /\ Len(list.entries) <= srv.n
  /\ \A i \in DOMAIN list.entries : list.entries[i] = i
  /\ \A k \in DOMAIN list.reqs :
       list.reqs[k] = IF k = 1 THEN EmptyCookie ELSE list.backs[k - 1]
  /\ \A k \in DOMAIN list.backs :
       (k < Len(list.backs) \/ list.pc = "loop") => list.backs[k] \notin {-1, EmptyCookie}
  /\ (list.pc \in {"collected", "done"} /\ list.err = NoErr) =>
       /\ Len(list.backs) = Len(list.reqs)
       /\ Len(list.backs) >= 1
       /\ srv.kind = "paging" => list.backs[Len(list.backs)] = EmptyCookie
       /\ Len(list.entries) = srv.n
  /\ (list.pc = "done" /\ list.err = NoErr) =>
       /\ Len(list.result) = srv.n
       /\ \A i \in 1..srv.n : list.result[i].DN = i
       /\ list.resultNil <=> srv.n = 0

\* A listing of three entries that took more than one page has returned.
C6_Witness ==
  /\ list.pc = "done" /\ list.err = NoErr
  /\ srv.kind = "paging" /\ srv.n = MaxEntries
  /\ Len(list.reqs) >= 2
  /\ Len(list.result) = MaxEntries

\* C7: an operation whose first attempt fails with a transient connection
\* error makes the session rebind exactly once; after a rebind that
\* succeeded the same operation is issued exactly once more and its result,
\* success or failure, is what the caller gets; after a rebind that failed
\* nothing more is issued and the caller gets a failure. No operation is
\* attempted more than twice, and a second attempt is only ever made after
\* a transient first failure.
C7_RetryProtocol ==
  LET x == sess.exec IN
  /\ Len(x.tries) <= 2
  /\ x.rebinds <= 1
  /\ x.pc # "idle" =>
       /\ Len(x.tries) >= 1
       /\ x.rebinds = (IF x.tries[1] = "transient" THEN 1 ELSE 0)
       /\ Len(x.tries) = 2 => x.tries[1] = "transient"
       /\ (x.pc = "done" /\ x.tries[1] = "transient") =>
            \/ /\ Len(x.tries) = 2
               /\ sess.state = "Bound"
               /\ x.err = ErrOf(x.tries[2])
            \/ /\ Len(x.tries) = 1
               /\ sess.state = "Failed"
               /\ x.err # NoErr

\* An operation failed, the session rebound, and the second attempt
\* succeeded.
C7_Witness ==
  /\ sess.exec.pc = "done"
  /\ sess.exec.tries = <<"transient", "ok">>
  /\ sess.exec.rebinds = 1
  /\ sess.exec.err = NoErr

\* C8: an operation whose first attempt fails with an error that is not a
\* transient connection error returns that error at once: no rebind, no
\* second attempt, and the session stays bound.
C8_NonTransientNoRetry ==
  LET x == sess.exec IN
  (x.pc # "idle" /\ x.tries[1] = "other") =>
    /\ x.pc = "done"
    /\ x.tries = <<"other">>
    /\ x.rebinds = 0
    /\ x.err = ErrOf("other")
    /\ sess.state = "Bound"

\* A search hit the fixture's entryForErr and returned its error.
C8_Witness ==
  /\ dirKind = "fixture"
  /\ sess.exec.pc = "done"
  /\ sess.exec.op = "search" /\ sess.exec.target = "entryForErr"
  /\ sess.exec.tries = <<"other">>
  /\ sess.exec.err = Err("error for tests")

SessionMoves ==
  {<<"Unbound", "Binding">>, <<"Binding", "Bound">>, <<"Binding", "Failed">>,
   <<"Bound", "Rebinding">>, <<"Rebinding", "Bound">>, <<"Rebinding", "Failed">>}

C10_EmptyArgsRejected ==
  (get.pc = "done" /\ get.args.Id = "" /\ get.args.Dn = "" /\ get.args.Filter = "") =>
    /\ get.err = Err("neither of ID, DN or Filter provided")
    /\ get.isNil
    /\ get.searches = <<>>

\* GetGroup was called with empty arguments while the group is there.
C10_Witness ==
  /\ get.pc = "done" /\ get.kind = "group"
  /\ get.args.Id = "" /\ get.args.Dn = "" /\ get.args.Filter = ""
  /\ groupEntry = "found"
  /\ get.err # NoErr

\* The cookie of the paging control of a response, wherever it sits among
\* the controls: -1 when the response has none.
PagingCookieOf(sr) ==
  IF sr.ctlNil \/ ~\E k \in DOMAIN sr.controls : sr.controls[k].type = "paging"
  THEN -1
  ELSE sr.controls[CHOOSE k \in DOMAIN sr.controls : sr.controls[k].type = "paging"].cookie

\* C19: the first request carries the empty cookie; after the response to
\* request k the loop stops if the response has no paging control or its
\* paging control's cookie is empty, and otherwise goes on with a request
\* carrying that cookie, wherever the paging control sits among the
\* controls; a control list that is empty is a response without paging
\* control.
C19_LoopStep ==
  /\ list.pc # "panic"
  /\ Len(list.reqs) >= 1 => list.reqs[1] = EmptyCookie
  /\ \A k \in DOMAIN list.reqs :
       (k < Len(list.reqs) \/ list.err = NoErr) =>
         LET back == PagingCookieOf(Search(list.reqs[k], list.size)) IN
         IF back \in {-1, EmptyCookie}
         THEN k = Len(list.reqs) /\ list.pc \in {"collected", "done"}
         ELSE /\ k < Len(list.reqs) => list.reqs[k + 1] = back
              /\ k = Len(list.reqs) => list.pc = "loop" /\ list.cookie = back

\* C20: the loop has no cap of its own. Against a server that answers with
\* its paging control first, a listing ends only on an error, on a response
\* without controls or on an empty cookie: when every page comes with a
\* cookie that is not empty it ends on an error or not at all; when the
\* server's pages run out it returns.
C20_NoIterationCap ==
  /\ []((srv.kind = "endless" /\ srv.ctl = "pagingOnly"
          /\ list.pc \in {"collected", "done"}) => list.err # NoErr)
  /\ (list.pc = "loop" /\ srv.kind # "endless" /\ srv.ctl = "pagingOnly")
       ~> (list.pc = "done")

\* A listing against the server that never ends is still in its loop after
\* as many pages as are followed.
C20_Witness ==
  /\ srv.kind = "endless" /\ srv.ctl = "pagingOnly"
  /\ list.pc = "loop"
  /\ Len(list.reqs) = MaxPages
  /\ Len(list.entries) = MaxPages

\* C21: a page request that fails with the network error is issued once
\* more after a rebind, so a listing never returns the network error of a
\* page it has requested only once.
C21_PagesThroughSession ==
  (list.pc = "done" /\ list.err = NetworkError) =>
    /\ Len(list.reqs) >= 2
    /\ list.reqs[Len(list.reqs)] = list.reqs[Len(list.reqs) - 1]

\* C26: a listing one of whose page searches failed has returned that error
\* and no result, whatever it had collected, and requests nothing more.
C26_AllOrNothing ==
  /\ [](list.err # NoErr =>
          /\ list.pc = "done"
          /\ list.err \in SearchErrors
          /\ list.result = <<>> /\ list.resultNil)
  /\ [][list.err # NoErr => list' = list]_vars

\* The search of a later page failed after entries had been collected.
C26_Witness ==
  /\ list.pc = "done" /\ list.err # NoErr
  /\ Len(list.entries) >= 2
  /\ Len(list.reqs) >= 3

\* C27: every Group built by GetGroup or ListGroups has as Id the first
\* value its entry holds for the id attribute configured for groups, and
\* every member record has as Id the first value its entry holds for the
\* attribute the member search asked for, the empty string standing for an
\* attribute the entry does not carry.
C27_IdFromIdAttribute ==
  \A k \in DOMAIN conv.out :
    /\ conv.out[k].Id = GetAttributeValue(conv.out[k].entry, conv.cfg.groupsId)
    /\ \A j \in DOMAIN conv.out[k].Members :
         conv.out[k].Members[j].Id
           = GetAttributeValue(conv.out[k].Members[j].entry, conv.out[k].Members[j].asked)

====
